---------------------------- MODULE Spec2Model ----------------------------
(***************************************************************************)
(* Model of app.py: a Flask process that relays POST /chat requests to the *)
(* google.generativeai SDK.                                                *)
(*                                                                         *)
(* Module initialisation (the API-key check, genai.configure, the PROFILES *)
(* table, the Flask app) is one action.  A request is handled by a worker  *)
(* thread of the Flask server; its handler chat() is split at the calls    *)
(* into the SDK, which are the only points where it can block and where    *)
(* another request can interleave: Receive (lines 69-87), Construct        *)
(* (lines 90-94), Generate (line 95), Reply (lines 96-99).                 *)
(*                                                                         *)
(* JSON values are tagged records of one shape [t, s, n]; a Python str is  *)
(* the sequence s of its characters, so that strip() and lower() are       *)
(* computed and not assumed.  Floats of generation_config are written in   *)
(* hundredths (0.55 is 55).                                                *)
(***************************************************************************)
EXTENDS Integers, Sequences, FiniteSets, TLC

VARIABLES
    GEMINI_API_KEY,   \* os.getenv("GEMINI_API_KEY"): a JSON-like value, Absent when unset
    boot,             \* "loading" | "failed" (RuntimeError at import) | "serving"
    sdkConfigured,    \* genai.configure has been called
    appCreated,       \* Flask(...) and its routes exist
    PROFILES,         \* the module-level dict
    pc,               \* per worker: "idle" | "ready" | "constructed" | "generated" | "done"
    data,             \* per worker: the request body
    user_message,     \* per worker: local user_message (a character sequence)
    mode,             \* per worker: local mode (a character sequence)
    profile,          \* per worker: local profile
    contents,         \* per worker: local contents
    model,            \* per worker: arguments the GenerativeModel was built with
    resp,             \* per worker: what generate_content returned
    calls,            \* per worker: the SDK calls made for the current request
    out               \* per worker: the HTTP response of the current request

vars == <<GEMINI_API_KEY, boot, sdkConfigured, appCreated, PROFILES, pc, data,
          user_message, mode, profile, contents, model, resp, calls, out>>

Workers == {1, 2}

-----------------------------------------------------------------------------
(* JSON / Python values *)

Val(t, s, n) == [t |-> t, s |-> s, n |-> n]
Absent  == Val("absent", <<>>, 0)
Null    == Val("null", <<>>, 0)
Str(s)  == Val("str", s, 0)
Num(n)  == Val("num", <<>>, n)
Bool(n) == Val("bool", <<>>, n)
List(n) == Val("list", <<>>, n)

\* Python truthiness of a value (None, False, 0, "", [] are falsy).
Truthy(v) ==
    CASE v.t = "absent" -> FALSE
      [] v.t = "null"   -> FALSE
      [] v.t = "str"    -> Len(v.s) > 0
      [] OTHER          -> v.n # 0

\* `v or d`
Or(v, d) == IF Truthy(v) THEN v ELSE d

Whitespace == {" ", "\t", "\n", "\r"}

RECURSIVE LStrip(_)
LStrip(s) == IF s # <<>> /\ Head(s) \in Whitespace THEN LStrip(Tail(s)) ELSE s

RECURSIVE RStrip(_)
RStrip(s) ==
    IF s # <<>> /\ s[Len(s)] \in Whitespace THEN RStrip(SubSeq(s, 1, Len(s) - 1)) ELSE s

\* str.strip()
Strip(s) == RStrip(LStrip(s))

\* The cased characters of the model: the ASCII letters, and the Greek sigma,
\* written "SIGMA" (U+03A3), "sigma" (U+03C3) and "final_sigma" (U+03C2),
\* which str.lower() maps by position.
UpperLetters == <<"A","B","C","D","E","F","G","H","I","J","K","L","M",
                  "N","O","P","Q","R","S","T","U","V","W","X","Y","Z","SIGMA">>
LowerLetters == <<"a","b","c","d","e","f","g","h","i","j","k","l","m",
                  "n","o","p","q","r","s","t","u","v","w","x","y","z","sigma">>
FinalSigma == "final_sigma"

Cased(c) ==
    \/ c = FinalSigma
    \/ \E i \in 1..Len(UpperLetters) : c = UpperLetters[i] \/ c = LowerLetters[i]

LowerChar(c) ==
    IF \E i \in 1..Len(UpperLetters) : UpperLetters[i] = c
    THEN LowerLetters[CHOOSE i \in 1..Len(UpperLetters) : UpperLetters[i] = c]
    ELSE c

\* the mode used as typed
Lower_AsTyped(s) == s

\* The character str.lower() writes for s[i].  A capital sigma after a cased
\* character and not before one becomes the final sigma (the model's
\* characters include none that is case-ignorable).
LowerAt(s, i) ==
    IF s[i] = "SIGMA" /\ i > 1 /\ Cased(s[i - 1]) /\ ~(i < Len(s) /\ Cased(s[i + 1]))
    THEN FinalSigma
    ELSE LowerChar(s[i])

\* str.lower()
Lower(s) == [i \in 1..Len(s) |-> LowerAt(s, i)]


-----------------------------------------------------------------------------
(* Module-level configuration *)

MODEL_NAME == "gemini-2.5-flash-lite"

KeyDefault == <<"d","e","f","a","u","l","t">>
KeyTeacher == <<"t","e","a","c","h","e","r">>
KeySupport == <<"s","u","p","p","o","r","t">>

GenCfg(temp, topp, topk, maxtok) ==
    [temperature |-> temp, top_p |-> topp, top_k |-> topk, max_output_tokens |-> maxtok]

\* The literal of lines 26-52.
ProfileTable ==
    (KeyDefault :> [system |-> "AstroMind", generation_config |-> GenCfg(55, 90, 40, 512)])
 @@ (KeyTeacher :> [system |-> "AstroMentor", generation_config |-> GenCfg(70, 95, 40, 700)])
 @@ (KeySupport :> [system |-> "MissionControl", generation_config |-> GenCfg(50, 85, 40, 600)])

\* PROFILES.get(m, PROFILES["default"]) on a table t
ProfileGet(t, m) == IF m \in DOMAIN t THEN t[m] ELSE t[KeyDefault]

\* the number of history turns kept by history[-8:]
HistoryWindow == 8

Placeholder == <<"(","N","o"," ","r","e","s","p","o","n","s","e"," ","t","e","x","t",")">>

-----------------------------------------------------------------------------
(* Request bodies *)

\* a history value: a JSON value whose items, for a list, are turns
HVal(t, items) == [t |-> t, items |-> items]
\* a turn: a JSON value which, for an object, has (possibly absent) role and text
Turn(t, role, text) == [t |-> t, role |-> role, text |-> text]
\* a request body: a JSON value which, for an object, has the three fields
Body(t, n, message, history, md) ==
    [t |-> t, n |-> n, message |-> message, history |-> history, mode |-> md]

\* dict.get(key): None when the key is absent
GetNone(v) == IF v.t = "absent" THEN Null ELSE v
\* dict.get(key, default)
GetDefault(v, d) == IF v.t = "absent" THEN d ELSE v

\* seq[-(n+1):], a window one turn too long
LastN_OffByOne(seq, n) == SubSeq(seq, IF Len(seq) > n THEN Len(seq) - n ELSE 1, Len(seq))

\* seq[-n:]
LastN(seq, n) == SubSeq(seq, IF Len(seq) > n THEN Len(seq) - n + 1 ELSE 1, Len(seq))

\* "user" if turn.get("role") == "user" else "model"
TurnRole(turn) == IF GetNone(turn.role) = Str(<<"u","s","e","r">>) THEN "user" ELSE "model"

\* {"role": role, "parts": [turn.get("text", "")]}
TurnContent(turn) == [role |-> TurnRole(turn), parts |-> <<GetDefault(turn.text, Str(<<>>))>>]

NoProfile == [system |-> "", generation_config |-> GenCfg(0, 0, 0, 0)]

\* Lines 69-87 of chat(): what the handler has computed when it reaches the
\* try block, or the early exit it took.  exit is "ready", "400" or the class
\* of the exception that left the handler.
Prepared(exit, um, md, prof, cont) ==
    [exit |-> exit, user_message |-> um, mode |-> md, profile |-> prof, contents |-> cont]

Prepare(profiles, b) ==
    IF b.t # "obj" /\ b.n # 0
    THEN Prepared("AttributeError", <<>>, <<>>, NoProfile, <<>>)      \* line 69-70: data.get
    ELSE
    LET d   == IF b.t = "obj" THEN b ELSE Body("obj", 0, Absent, HVal("absent", <<>>), Absent)
        msg == Or(GetNone(d.message), Str(<<>>))
    IN  IF msg.t # "str"
        THEN Prepared("AttributeError", <<>>, <<>>, NoProfile, <<>>)  \* line 70: .strip()
        ELSE
        LET um      == Strip(msg.s)
            history == IF d.history.t = "absent" THEN HVal("list", <<>>) ELSE d.history
            m       == Or(GetNone(d.mode), Str(KeyDefault))
        IN  IF m.t # "str"
            THEN Prepared("AttributeError", um, <<>>, NoProfile, <<>>)  \* line 72: .lower()
            ELSE
            LET md == Lower(m.s)
            IN  IF um = <<>>
                THEN Prepared("400", um, md, NoProfile, <<>>)           \* line 74-75
                ELSE
                LET prof == ProfileGet(profiles, md)
                IN  IF history.t \notin {"list", "str"}
                    THEN Prepared("TypeError", um, md, prof, <<>>)      \* line 84: history[-8:]
                    ELSE
                    LET window == LastN(history.items, HistoryWindow)
                    IN  IF \E i \in 1..Len(window) : window[i].t # "obj"
                        THEN Prepared("AttributeError", um, md, prof, <<>>)  \* line 85: turn.get
                        ELSE Prepared("ready", um, md, prof,
                                 Append([i \in 1..Len(window) |-> TurnContent(window[i])],
                                        [role |-> "user", parts |-> <<Str(um)>>]))

-----------------------------------------------------------------------------
(* The SDK: what a call into google.generativeai can do *)

Exc(cls, msg) == [cls |-> cls, msg |-> msg]
NoExc == Exc("", "")

\* str(e)
StrOf(e) == e.msg

\* what genai.GenerativeModel(...) can raise
ConstructErrors == {Exc("ValueError", "")}
\* what model.generate_content(...) can raise
GenerateErrors == {Exc("ResourceExhausted", "429 quota exceeded")}
\* what reading resp.text can raise
TextErrors == {Exc("ValueError", "response has no valid Part")}

\* a response object: reading .text yields text, or raises exc when raises
Response(text, raises, exc) == [text |-> text, raises |-> raises, exc |-> exc]
NoResp == Response(Absent, FALSE, NoExc)

Responses ==
    {Response(t, FALSE, NoExc) : t \in {Str(<<"o","k">>), Str(<<>>), Null}}
    \cup {Response(Absent, TRUE, e) : e \in TextErrors}

\* the record of one SDK call made by a handler
Call(fn, system, config, cont, raised) ==
    [fn |-> fn, system |-> system, config |-> config, contents |-> cont, raised |-> raised]

NoModel == [built |-> FALSE, name |-> "", system |-> "", generation_config |-> GenCfg(0, 0, 0, 0)]

-----------------------------------------------------------------------------
(* HTTP responses *)

\* kind is "reply" ({reply, mode}), "error" ({error}) or "unhandled" (an
\* exception left chat(); Flask answers with its own error page)
Http(status, kind, reply, md, error) ==
    [status |-> status, kind |-> kind, reply |-> reply, mode |-> md, error |-> error]
NoOut == Http(0, "none", Absent, Absent, "")

\* a reply that names the profile actually used
ReplyOk_Resolved(text, md) ==
    Http(200, "reply", text, Str(IF md \in DOMAIN ProfileTable THEN md ELSE KeyDefault), "")

ReplyOk(text, md)  == Http(200, "reply", text, Str(md), "")
ErrorOut(status, msg) == Http(status, "error", Absent, Absent, msg)
Unhandled(cls)     == Http(500, "unhandled", Absent, Absent, cls)

-----------------------------------------------------------------------------
(* The requests the clients send *)

\* the longest history a client sends
MaxHistory == 9

User  == <<"u","s","e","r">>
Model == <<"m","o","d","e","l">>
Hi    == <<"h","i">>

\* a text that identifies the position i of its turn
TextAt(i) == [j \in 1..i |-> "a"]

RolePool == <<Str(User), Str(Model), Absent, Str(<<"U","s","e","r">>), Null>>

\* the i-th turn of the k-th family of histories: roles cycle through
\* RolePool, texts are distinct per position, and some are absent or null
TurnAt(i, k) ==
    Turn("obj", RolePool[((i + k) % Len(RolePool)) + 1],
         IF (i + k) % 4 = 3 THEN Absent
         ELSE IF (i + k) % 7 = 5 THEN Null
         ELSE Str(TextAt(i)))

Hist(n, k) == HVal("list", [i \in 1..n |-> TurnAt(i, k)])

\* h with its turn at position pos replaced by a JSON value that is no object
WithBadTurn(h, pos, t) == HVal(h.t, [h.items EXCEPT ![pos] = Turn(t, Absent, Absent)])

GoodHistories == {Hist(n, 0) : n \in 0..MaxHistory} \cup {Hist(MaxHistory, 3)}

OddHistories ==
    { HVal("absent", <<>>), HVal("null", <<>>), HVal("num", <<>>), HVal("obj", <<>>),
      HVal("str", <<>>), HVal("str", <<Turn("str", Absent, Absent)>>),
      WithBadTurn(Hist(MaxHistory, 0), 1, "null"),
      WithBadTurn(Hist(MaxHistory, 0), MaxHistory, "str"),
      WithBadTurn(Hist(3, 0), 2, "list") }

EmptyMessages ==
    {Absent, Null, Str(<<>>), Str(<<" "," ">>), Str(<<" ","\t","\n">>), Num(0), Bool(0), List(0)}
BadMessages  == {Num(5), List(1), Bool(1)}

KnownModes ==
    { Str(KeyDefault), Str(KeyTeacher), Str(KeySupport),
      Str(<<"T","e","a","c","h","e","r">>), Str(<<"T","E","A","C","H","E","R">>),
      Str(<<"S","u","p","p","o","r","T">>), Str(<<"D","E","F","A","U","L","T">>) }
UnknownModes ==
    { Str(<<"p","i","r","a","t","e">>), Str(<<"P","i","r","a","t","e">>),
      Str(<<" ","t","e","a","c","h","e","r">>), Str(<<"t","e","a","c","h","e","r","2">>),
      Str(<<"A","SIGMA">>), Str(<<"a","sigma">>) }
FalsyModes == {Absent, Null, Str(<<>>), Num(0)}
BadModes   == {Num(5), List(2)}
Modes == KnownModes \cup UnknownModes \cup FalsyModes \cup BadModes

ObjBody(message, history, md) == Body("obj", 1, message, history, md)

Bodies ==
    { ObjBody(m, HVal("null", <<>>), md) :
          m \in EmptyMessages,
          md \in {Absent, Str(KeyTeacher), Str(<<"p","i","r","a","t","e">>), Num(5)} }
    \cup { ObjBody(Str(<<" "," ">>), h, md) :
          h \in {HVal("absent", <<>>), Hist(MaxHistory, 0)}, md \in {Absent, List(2)} }
    \cup { ObjBody(Str(Hi), Hist(2, 0), md) : md \in Modes }
    \cup { ObjBody(Str(<<" ","h"," ","i","\n">>), Hist(1, 3), Absent) }
    \cup { ObjBody(Str(Hi), h, Absent) : h \in GoodHistories \cup OddHistories }
    \cup { ObjBody(m, HVal("absent", <<>>), Absent) : m \in BadMessages }
    \cup { Body(t, n, Absent, HVal("absent", <<>>), Absent) :
              t \in {"null", "list", "num"}, n \in {0, 2} }

-----------------------------------------------------------------------------
(* Behaviour *)

EnvValues == {Absent, Str(<<>>), Str(<<"k","e","y">>)}

Idle(v) == [p \in Workers |-> v]

Init ==
    /\ GEMINI_API_KEY \in EnvValues
    /\ boot = "loading"
    /\ sdkConfigured = FALSE
    /\ appCreated = FALSE
    /\ PROFILES = <<>>
    /\ pc = Idle("idle")
    /\ data = Idle(Body("null", 0, Absent, HVal("absent", <<>>), Absent))
    /\ user_message = Idle(<<>>)
    /\ mode = Idle(<<>>)
    /\ profile = Idle(NoProfile)
    /\ contents = Idle(<<>>)
    /\ model = Idle(NoModel)
    /\ resp = Idle(NoResp)
    /\ calls = Idle(<<>>)
    /\ out = Idle(NoOut)

requestVars == <<pc, data, user_message, mode, profile, contents, model, resp, calls, out>>
moduleVars  == <<GEMINI_API_KEY, boot, sdkConfigured, appCreated, PROFILES>>

\* a module body that warns about the missing key and goes on
ModuleInit_NoRaise ==
    /\ boot = "loading"
    /\ sdkConfigured' = TRUE
    /\ PROFILES' = ProfileTable
    /\ appCreated' = TRUE
    /\ boot' = "serving"
    /\ UNCHANGED <<GEMINI_API_KEY, requestVars>>

\* Lines 10-58: the module body, run once when the process starts.
ModuleInit ==
    /\ boot = "loading"
    /\ IF ~Truthy(GEMINI_API_KEY)
       THEN /\ boot' = "failed"                      \* line 17: raise RuntimeError
            /\ UNCHANGED <<sdkConfigured, appCreated, PROFILES>>
       ELSE /\ sdkConfigured' = TRUE                 \* line 21
            /\ PROFILES' = ProfileTable              \* lines 26-52
            /\ appCreated' = TRUE                    \* lines 57-67
            /\ boot' = "serving"
    /\ UNCHANGED <<GEMINI_API_KEY, requestVars>>

\* an error answer that hides the exception's text
HandleException_Generic(e) == ErrorOut(500, "Internal Server Error")

\* Lines 98-99: except Exception as e
HandleException(e) == ErrorOut(500, StrOf(e))

\* a placeholder for None only
TextOrPlaceholder_NoneOnly(t) == IF t.t = "null" THEN Str(Placeholder) ELSE t

\* Line 96: resp.text or "(No response text)"
TextOrPlaceholder(t) == Or(t, Str(Placeholder))

\* a handler that resolves the fallback with PROFILES.setdefault(mode, default)
Receive_Setdefault(p) ==
    /\ appCreated
    /\ pc[p] = "idle"
    /\ \E b \in Bodies :
         LET r == Prepare(PROFILES, b)
         IN  /\ data' = [data EXCEPT ![p] = b]
             /\ user_message' = [user_message EXCEPT ![p] = r.user_message]
             /\ mode' = [mode EXCEPT ![p] = r.mode]
             /\ profile' = [profile EXCEPT ![p] = r.profile]
             /\ contents' = [contents EXCEPT ![p] = r.contents]
             /\ pc' = [pc EXCEPT ![p] = IF r.exit = "ready" THEN "ready" ELSE "done"]
             /\ out' = [out EXCEPT ![p] =
                          IF r.exit = "ready" THEN NoOut
                          ELSE IF r.exit = "400" THEN ErrorOut(400, "Empty message")
                          ELSE Unhandled(r.exit)]
             /\ PROFILES' = IF r.profile = NoProfile THEN PROFILES   \* line 78 not reached
                            ELSE (r.mode :> r.profile) @@ PROFILES
    /\ UNCHANGED <<GEMINI_API_KEY, boot, sdkConfigured, appCreated, model, resp, calls>>

\* Lines 69-87: a request arrives and the handler runs up to the try block.
Receive(p) ==
    /\ appCreated
    /\ pc[p] = "idle"
    /\ \E b \in Bodies :
         LET r == Prepare(PROFILES, b)
         IN  /\ data' = [data EXCEPT ![p] = b]
             /\ user_message' = [user_message EXCEPT ![p] = r.user_message]
             /\ mode' = [mode EXCEPT ![p] = r.mode]
             /\ profile' = [profile EXCEPT ![p] = r.profile]
             /\ contents' = [contents EXCEPT ![p] = r.contents]
             /\ pc' = [pc EXCEPT ![p] = IF r.exit = "ready" THEN "ready" ELSE "done"]
             /\ out' = [out EXCEPT ![p] =
                          IF r.exit = "ready" THEN NoOut
                          ELSE IF r.exit = "400" THEN ErrorOut(400, "Empty message")
                          ELSE Unhandled(r.exit)]
    /\ UNCHANGED <<moduleVars, model, resp, calls>>

\* Lines 90-94: genai.GenerativeModel(MODEL_NAME, system_instruction=..., generation_config=...)
Construct(p) ==
    /\ pc[p] = "ready"
    /\ \/ /\ model' = [model EXCEPT ![p] =
                         [built |-> TRUE, name |-> MODEL_NAME, system |-> profile[p].system,
                          generation_config |-> profile[p].generation_config]]
          /\ calls' = [calls EXCEPT ![p] =
                         Append(@, Call("GenerativeModel", profile[p].system,
                                        profile[p].generation_config, <<>>, NoExc))]
          /\ pc' = [pc EXCEPT ![p] = "constructed"]
          /\ UNCHANGED out
       \/ \E e \in ConstructErrors :
            /\ calls' = [calls EXCEPT ![p] =
                           Append(@, Call("GenerativeModel", profile[p].system,
                                          profile[p].generation_config, <<>>, e))]
            /\ out' = [out EXCEPT ![p] = HandleException(e)]
            /\ pc' = [pc EXCEPT ![p] = "done"]
            /\ UNCHANGED model
    /\ UNCHANGED <<moduleVars, data, user_message, mode, profile, contents, resp>>

\* a handler that calls generate_content again after a failure
Generate_Retry(p) ==
    /\ pc[p] = "constructed"
    /\ \/ \E r \in Responses :
            /\ resp' = [resp EXCEPT ![p] = r]
            /\ calls' = [calls EXCEPT ![p] =
                           Append(@, Call("generate_content", model[p].system,
                                          model[p].generation_config, contents[p], NoExc))]
            /\ pc' = [pc EXCEPT ![p] = "generated"]
            /\ UNCHANGED out
       \/ \E e \in GenerateErrors :
            /\ calls' = [calls EXCEPT ![p] =
                           Append(@, Call("generate_content", model[p].system,
                                          model[p].generation_config, contents[p], e))]
            /\ IF Len(calls[p]) < 2
               THEN UNCHANGED <<out, pc>>
               ELSE /\ out' = [out EXCEPT ![p] = HandleException(e)]
                    /\ pc' = [pc EXCEPT ![p] = "done"]
            /\ UNCHANGED resp
    /\ UNCHANGED <<moduleVars, data, user_message, mode, profile, contents, model>>

\* Line 95: resp = model.generate_content(contents)
Generate(p) ==
    /\ pc[p] = "constructed"
    /\ \/ \E r \in Responses :
            /\ resp' = [resp EXCEPT ![p] = r]
            /\ calls' = [calls EXCEPT ![p] =
                           Append(@, Call("generate_content", model[p].system,
                                          model[p].generation_config, contents[p], NoExc))]
            /\ pc' = [pc EXCEPT ![p] = "generated"]
            /\ UNCHANGED out
       \/ \E e \in GenerateErrors :
            /\ calls' = [calls EXCEPT ![p] =
                           Append(@, Call("generate_content", model[p].system,
                                          model[p].generation_config, contents[p], e))]
            /\ out' = [out EXCEPT ![p] = HandleException(e)]
            /\ pc' = [pc EXCEPT ![p] = "done"]
            /\ UNCHANGED resp
    /\ UNCHANGED <<moduleVars, data, user_message, mode, profile, contents, model>>

\* Lines 96-97: text = resp.text or "(No response text)"; return jsonify(...)
Reply(p) ==
    /\ pc[p] = "generated"
    /\ out' = [out EXCEPT ![p] =
                 IF resp[p].raises
                 THEN HandleException(resp[p].exc)
                 ELSE ReplyOk(TextOrPlaceholder(resp[p].text), mode[p])]
    /\ pc' = [pc EXCEPT ![p] = "done"]
    /\ UNCHANGED <<moduleVars, data, user_message, mode, profile, contents, model, resp, calls>>

\* The response has been sent: the worker's frame is gone and it can take
\* the next request.
Finish(p) ==
    /\ pc[p] = "done"
    /\ pc' = [pc EXCEPT ![p] = "idle"]
    /\ data' = [data EXCEPT ![p] = Body("null", 0, Absent, HVal("absent", <<>>), Absent)]
    /\ user_message' = [user_message EXCEPT ![p] = <<>>]
    /\ mode' = [mode EXCEPT ![p] = <<>>]
    /\ profile' = [profile EXCEPT ![p] = NoProfile]
    /\ contents' = [contents EXCEPT ![p] = <<>>]
    /\ model' = [model EXCEPT ![p] = NoModel]
    /\ resp' = [resp EXCEPT ![p] = NoResp]
    /\ calls' = [calls EXCEPT ![p] = <<>>]
    /\ out' = [out EXCEPT ![p] = NoOut]
    /\ UNCHANGED moduleVars

Next ==
    \/ ModuleInit
    \/ \E p \in Workers : Receive(p)
    \/ \E p \in Workers : Construct(p)
    \/ \E p \in Workers : Generate(p)
    \/ \E p \in Workers : Reply(p)
    \/ \E p \in Workers : Finish(p)

Spec == Init /\ [][Next]_vars

-----------------------------------------------------------------------------
(* Vocabulary of the properties, stated on the request body and on the     *)
(* recorded SDK calls, not through the handler's own operators             *)

Blank(s) == \A i \in 1..Len(s) : s[i] \in Whitespace

\* the message field is missing, null, empty or only whitespace
MessageIsEmpty(b) ==
    /\ b.t = "obj"
    /\ \/ b.message.t \in {"absent", "null"}
       \/ b.message.t = "str" /\ Blank(b.message.s)

\* the message field is a string with something other than whitespace in it
MessageIsText(b) == b.t = "obj" /\ b.message.t = "str" /\ ~Blank(b.message.s)

\* t is s without its leading and trailing whitespace
IsTrimOf(t, s) ==
    /\ t # <<>> /\ t[1] \notin Whitespace /\ t[Len(t)] \notin Whitespace
    /\ \E a \in 0..Len(s) :
         /\ a + Len(t) <= Len(s)
         /\ SubSeq(s, a + 1, a + Len(t)) = t
         /\ Blank(SubSeq(s, 1, a))
         /\ Blank(SubSeq(s, a + Len(t) + 1, Len(s)))

\* c and d are the same character up to letter case
SameLetter(c, d) ==
    \/ c = d
    \/ \E i \in 1..Len(UpperLetters) : {c, d} = {UpperLetters[i], LowerLetters[i]}
    \/ {c, d} = {"SIGMA", FinalSigma}

Ascii(s) == \A i \in 1..Len(s) : s[i] \notin {"SIGMA", "sigma", FinalSigma}

SameUpToCase(s, t) == Len(s) = Len(t) /\ \A i \in 1..Len(s) : SameLetter(s[i], t[i])

IsLowerCase(s) == \A i \in 1..Len(s) : \A k \in 1..Len(UpperLetters) : s[i] # UpperLetters[k]

ProfileKeys == {KeyDefault, KeyTeacher, KeySupport}

\* the mode field is a non-empty string naming none of the profiles in any case
ModeIsUnknown(b) ==
    /\ b.t = "obj" /\ b.mode.t = "str" /\ b.mode.s # <<>>
    /\ \A k \in ProfileKeys : ~SameUpToCase(b.mode.s, k)

\* the history field is absent or a list of objects
HistoryIsTurns(b) ==
    /\ b.t = "obj"
    /\ b.history.t \in {"absent", "list"}
    /\ \A i \in 1..Len(b.history.items) : b.history.items[i].t = "obj"

Min(a, b) == IF a < b THEN a ELSE b

GenerateCalls(p) == {i \in 1..Len(calls[p]) : calls[p][i].fn = "generate_content"}
ConstructCalls(p) == {i \in 1..Len(calls[p]) : calls[p][i].fn = "GenerativeModel"}
Raised(p) == {i \in 1..Len(calls[p]) : calls[p][i].raised # NoExc}

-----------------------------------------------------------------------------
(* Properties *)

\* C1: a request whose message is missing, null, empty or only whitespace is
\* answered 400 {"error": "Empty message"} and makes no SDK call, whatever
\* its history and mode fields contain.
C1_EmptyMessageRejected ==
    \A p \in Workers :
        (pc[p] # "idle" /\ MessageIsEmpty(data[p])) =>
            /\ pc[p] = "done"
            /\ out[p] = ErrorOut(400, "Empty message")
            /\ calls[p] = <<>>

\* C2: the turn sequence passed to generate_content is the last min(n, 8)
\* supplied turns in order, each with role "user" when its supplied role is
\* "user" and "model" otherwise and with its text as the single part (the
\* empty string when the text is absent), followed by a "user" turn carrying
\* the trimmed message.
C2_Expected(b, c) ==
    LET items == b.history.items
        n     == Len(items)
        k     == Min(n, 8)
    IN  /\ Len(c) = k + 1
        /\ \A j \in 1..k :
             LET turn == items[n - k + j]
             IN  /\ c[j].role = (IF turn.role = Str(User) THEN "user" ELSE "model")
                 /\ c[j].parts = <<IF turn.text.t = "absent" THEN Str(<<>>) ELSE turn.text>>
        /\ c[k + 1].role = "user"
        /\ Len(c[k + 1].parts) = 1
        /\ c[k + 1].parts[1].t = "str"
        /\ IsTrimOf(c[k + 1].parts[1].s, b.message.s)

C2_HistoryWindow ==
    \A p \in Workers :
        /\ \A i \in GenerateCalls(p) : C2_Expected(data[p], calls[p][i].contents)
        /\ pc[p] \in {"ready", "constructed", "generated"} => C2_Expected(data[p], contents[p])

C2_Witness ==
    \E p \in Workers :
        /\ GenerateCalls(p) # {}
        /\ Len(data[p].history.items) > 8
        /\ \E i \in 1..Len(data[p].history.items) : data[p].history.items[i].text.t = "absent"

\* C3: a request with a non-empty message and a mode that names no profile
\* is served with the default profile's system instruction and generation
\* parameters, and a successful response echoes the requested mode in lower
\* case, not "default".
C3_UnknownModeFallsBack ==
    \A p \in Workers :
        (pc[p] # "idle" /\ MessageIsText(data[p]) /\ ModeIsUnknown(data[p])) =>
            /\ \A i \in 1..Len(calls[p]) :
                 /\ calls[p][i].system = ProfileTable[KeyDefault].system
                 /\ calls[p][i].config = ProfileTable[KeyDefault].generation_config
            /\ HistoryIsTurns(data[p]) =>
                 /\ out[p].kind # "unhandled" /\ out[p].status # 400
                 /\ pc[p] = "done" => ConstructCalls(p) # {}
            /\ out[p].status = 200 =>
                 /\ out[p].mode.t = "str"
                 /\ SameUpToCase(out[p].mode.s, data[p].mode.s)
                 /\ IsLowerCase(out[p].mode.s)
                 /\ out[p].mode # Str(KeyDefault)

C3_Witness ==
    \E p \in Workers :
        /\ MessageIsText(data[p]) /\ ModeIsUnknown(data[p])
        /\ data[p].mode.s # out[p].mode.s
        /\ out[p].status = 200
        /\ GenerateCalls(p) # {}

\* C4: when constructing the model client, generate_content or reading the
\* response text raises, the answer is 500 {"error": str(e)} and carries no
\* reply.
C4_UpstreamErrorIs500 ==
    \A p \in Workers :
        /\ \A i \in Raised(p) :
             /\ pc[p] = "done"
             /\ out[p] = Http(500, "error", Absent, Absent, calls[p][i].raised.msg)
        /\ (pc[p] = "done" /\ resp[p].raises) =>
             out[p] = Http(500, "error", Absent, Absent, resp[p].exc.msg)

C4_Witness ==
    /\ \E p \in Workers : \E i \in Raised(p) :
         calls[p][i].fn = "generate_content" /\ out[p].error = "429 quota exceeded"
    /\ \E p \in Workers : pc[p] = "done" /\ resp[p].raises

\* C5: when the SDK calls succeed the answer is 200, its reply is the
\* model's text when that is non-empty and "(No response text)" when it is
\* empty or null; no 200 answer carries an empty reply.
C5_ReplyOrPlaceholder ==
    \A p \in Workers :
        /\ (pc[p] = "done" /\ resp[p] # NoResp /\ ~resp[p].raises) =>
             /\ out[p].status = 200 /\ out[p].kind = "reply"
             /\ (resp[p].text.t = "str" /\ resp[p].text.s # <<>>) => out[p].reply = resp[p].text
             /\ (resp[p].text.t = "null" \/ resp[p].text = Str(<<>>)) =>
                    out[p].reply = Str(Placeholder)
        /\ out[p].status = 200 => (out[p].reply.t = "str" /\ out[p].reply.s # <<>>)

C5_Witness ==
    /\ \E p \in Workers : pc[p] = "done" /\ resp[p].text = Str(<<>>) /\ ~resp[p].raises
                          /\ resp[p] # NoResp
    /\ \E p \in Workers : pc[p] = "done" /\ resp[p].text = Str(<<"o","k">>)

C7_AlwaysAnEnvelope ==
    \A p \in Workers :
        pc[p] = "done" =>
            \/ out[p].kind = "reply" /\ out[p].status = 200
            \/ out[p].kind = "error" /\ out[p].status \in {400, 500}

\* C8: generate_content is invoked at most once per request, exactly once
\* when the model client was constructed, and a failed SDK call is followed
\* by the error response, not by another attempt.
C8_NoRetry ==
    \A p \in Workers :
        /\ Cardinality(GenerateCalls(p)) <= 1
        /\ Cardinality(ConstructCalls(p)) <= 1
        /\ (pc[p] = "done" /\ model[p].built) => Cardinality(GenerateCalls(p)) = 1
        /\ ~model[p].built => GenerateCalls(p) = {}
        /\ \A i \in Raised(p) : i = Len(calls[p]) /\ pc[p] = "done" /\ out[p].status = 500

C8_Witness ==
    \E p \in Workers :
        /\ pc[p] = "done" /\ model[p].built
        /\ \E i \in Raised(p) : calls[p][i].fn = "generate_content"

\* C9: the handler is stateless across requests: PROFILES keeps its startup
\* value, and two requests with the same body for which the SDK behaved the
\* same are at every step given the same profile, turn sequence and answer,
\* whatever was handled before or is handled at the same time.
SdkOutcome(p) == <<[i \in 1..Len(calls[p]) |-> calls[p][i].raised], resp[p]>>

C9_Stateless ==
    /\ appCreated => PROFILES = ProfileTable
    /\ \A p, q \in Workers :
         (pc[p] = pc[q] /\ pc[p] # "idle" /\ data[p] = data[q] /\ SdkOutcome(p) = SdkOutcome(q)) =>
             /\ profile[p] = profile[q]
             /\ contents[p] = contents[q]
             /\ model[p] = model[q]
             /\ calls[p] = calls[q]
             /\ out[p] = out[q]
    /\ \A p \in Workers :
         pc[p] = "ready" =>
             profile[p] = (IF mode[p] \in ProfileKeys THEN ProfileTable[mode[p]]
                           ELSE ProfileTable[KeyDefault])

C9_Witness ==
    /\ pc[1] = "done" /\ pc[2] = "done"
    /\ data[1] = data[2]
    /\ out[1].status = 200 /\ out[2].status = 200
    /\ ModeIsUnknown(data[1])

\* C10: when GEMINI_API_KEY is absent or empty, module initialisation fails
\* before the SDK is configured and before the Flask app exists, so no
\* request is ever handled without a credential.
C10_FailFast ==
    /\ boot = "failed" => (~sdkConfigured /\ ~appCreated)
    /\ (GEMINI_API_KEY = Absent \/ GEMINI_API_KEY = Str(<<>>)) =>
         /\ boot \in {"loading", "failed"}
         /\ ~sdkConfigured /\ ~appCreated
         /\ \A p \in Workers : pc[p] = "idle" /\ calls[p] = <<>>
    /\ \A p \in Workers : pc[p] # "idle" => (sdkConfigured /\ boot = "serving")

C10_Witness == boot = "failed" /\ GEMINI_API_KEY = Absent

=============================================================================
